---- MODULE Spec2Model ----
(***************************************************************************)
(* Registration interstitials of src/user/interstitials.js: the three      *)
(* built-in steps (email update, GDPR consent, terms of use), the          *)
(* interstitials they append and the callbacks those interstitials carry.  *)
(*                                                                         *)
(* JavaScript values are encoded as follows.                               *)
(*   - a string is a sequence of one-character strings; `undefined` and    *)
(*     `null` are the one-element sequence Undefined, which no string of   *)
(*     the model equals;                                                   *)
(*   - an account id is a record [t, v]: t = "undef" (no uid), "num" (a    *)
(*     number v) or "str" (the decimal string of v), so that === and       *)
(*     parseInt can tell 1 from "1";                                       *)
(*   - NaN is the integer NaN (-1; no parsed value of the model is         *)
(*     negative).                                                          *)
(***************************************************************************)
EXTENDS Integers, Sequences, FiniteSets, TLC

VARIABLES
    config,        \* meta.config: requireEmailAddress, gdpr_enabled, termsOfUse
    req,           \* data.req: uid of the requester, session.emailChanged
    priv,          \* privilege service: admin:users of the requester, edit rights
    userData,      \* data.userData, the draft account (present = FALSE: missing)
    store,         \* account store record of the draft's uid
    interstitials, \* data.interstitials
    pc,            \* position of the filter:register.interstitial run
    last           \* the last operation: its inputs, outcome and lookups

vars == <<config, req, priv, userData, store, interstitials, pc, last>>

-----------------------------------------------------------------------------
(* Bounds and values *)

MaxUid == 2

Undefined == <<"undefined">>
NaN == -1

NoUid == [t |-> "undef", v |-> 0]
NumUid(n) == [t |-> "num", v |-> n]
StrUid(n) == [t |-> "str", v |-> n]

EmailA == <<"a", "@">>
EmailB == <<"b", "@">>

\* formData.email as submitted: absent, whitespace only, EmailA padded with
\* blanks, EmailB, and a string without "@"
FormEmails == {Undefined, <<" ">>, <<" ", "a", "@", " ">>, EmailB, <<"b">>}

TermsText == <<"t">>

\* values of a stored flag field (db.getObjectField): null, "0", "1"
StoredFlags == {Undefined, <<"0">>, <<"1">>}

-----------------------------------------------------------------------------
(* JavaScript primitives *)

WhiteSpace == {" "}

RECURSIVE TrimStart(_)
TrimStart(s) ==
    IF s # <<>> /\ Head(s) \in WhiteSpace THEN TrimStart(Tail(s)) ELSE s

RECURSIVE TrimEnd(_)
TrimEnd(s) ==
    IF s # <<>> /\ s[Len(s)] \in WhiteSpace
    THEN TrimEnd(SubSeq(s, 1, Len(s) - 1))
    ELSE s

\* String.prototype.trim
Trim(s) == TrimEnd(TrimStart(s))

\* truthiness of a string-or-undefined value
TruthyStr(s) == s # Undefined /\ s # <<>>

\* truthiness of an account id: undefined and the number 0 are falsy
TruthyUid(u) == (u.t = "num" /\ u.v # 0) \/ u.t = "str"

\* parseInt(uid, 10)
ParseIntUid(u) == IF u.t = "undef" THEN NaN ELSE u.v

Digits == {"0", "1"}
DigitVal(c) == IF c = "1" THEN 1 ELSE 0

RECURSIVE ParseDigits(_, _)
ParseDigits(s, acc) ==
    IF s # <<>> /\ Head(s) \in Digits
    THEN ParseDigits(Tail(s), 10 * acc + DigitVal(Head(s)))
    ELSE acc

\* parseInt(value, 10) of a stored field: NaN unless it starts with a digit
ParseInt(s) ==
    IF s = Undefined \/ s = <<>> \/ Head(s) \notin Digits
    THEN NaN
    ELSE ParseDigits(s, 0)

\* truthiness of a number
TruthyNum(n) == n # 0 /\ n # NaN

\* a # b for account ids (!==): different type or different value
StrictNotEqual(a, b) == a # b

\* utils.isEmailValid: a non-empty string with "@" and neither "," nor ";"
isEmailValid(e) ==
    /\ e # Undefined
    /\ Len(e) > 0
    /\ \E i \in 1..Len(e) : e[i] = "@"
    /\ \A i \in 1..Len(e) : e[i] \notin {",", ";"}

-----------------------------------------------------------------------------
(* Collaborators of the module *)

\* plugins.hooks.fire('filter:parse.post', ...): the content filter; it
\* returns the content as rendered markup
ParsePost(content) == <<"<p>">> \o content \o <<"</p>">>

\* privileges.users.canEdit(req.uid, uid): one's own account, or edit rights
canEditPriv(reqUid, uid, editRights) ==
    ParseIntUid(reqUid) = ParseIntUid(uid) \/ editRights

\* user.email.canSendValidation: no validation was sent within the interval
canSendValidation(st) == st.validation # "recent"

\* user.email.isValidationPending
isValidationPending(u, st) == TruthyUid(u) /\ st.validation # "none"

\* user.hasPassword
hasPasswordOf(u, st) == TruthyUid(u) /\ st.hasPassword

\* user.email.remove: the binding and its pending validation are gone
EmailRemove(st) ==
    [st EXCEPT !.email = <<>>, !.confirmed = FALSE, !.validation = "none"]

\* user.setUserField(uid, 'email', email)
SetEmailField(st, e) == [st EXCEPT !.email = e]

\* user.email.confirmByUid
ConfirmByUid(st) == [st EXCEPT !.confirmed = TRUE, !.validation = "none"]

\* user.email.sendValidationEmail(uid, {email, force: true})
SendValidationEmail(st, fails) ==
    IF fails THEN st ELSE [st EXCEPT !.validation = "recent"]

-----------------------------------------------------------------------------
(* State *)

\* the requester is account 1; a draft has no uid, uid 1 as a number or as
\* a string, or the uid of another account
Uids == {NoUid, StrUid(1)} \cup {NumUid(n) : n \in 1..MaxUid}

Toggles == {"on", "off", "absent"}

NoForm ==
    [email |-> Undefined, gdpr_agree_data |-> "absent",
     gdpr_agree_email |-> "absent", agree_terms |-> "absent"]

\* what the collaborators answer to one callback invocation
NoOracles ==
    [isPasswordCorrect |-> FALSE, allowed |-> TRUE, error |-> "invalid-email",
     available |-> TRUE, sendFails |-> FALSE]

\* repeat: the operation is the callback that ran just before, invoked again
\* with the same formData and the same answers of the collaborators
NoOp(op) ==
    [op |-> op, idx |-> 0, result |-> "ok", via |-> "return", trace |-> <<>>,
     form |-> NoForm, oracles |-> NoOracles, repeat |-> FALSE]

Resubmits(op, i, form, o) ==
    last.op = op /\ last.idx = i /\ last.form = form /\ last.oracles = o

NoStore ==
    [email |-> <<>>, confirmed |-> FALSE, hasPassword |-> FALSE,
     gdpr_consent |-> Undefined, acceptTos |-> Undefined, validation |-> "none"]

NoDraft ==
    [present |-> FALSE, uid |-> NoUid, updateEmail |-> FALSE, email |-> Undefined,
     gdpr_consent |-> FALSE, acceptTos |-> FALSE]

\* Drafts and accounts of an email change: every requester privilege, every
\* target (new account, own account as number or string, another account),
\* with or without a stored, confirmed email and a password.
InitEmail ==
    /\ config \in [requireEmailAddress : BOOLEAN, gdpr_enabled : {FALSE},
                   termsOfUse : {<<>>}]
    /\ priv \in [canManageUsers : BOOLEAN, editRights : BOOLEAN]
    /\ userData \in {[NoDraft EXCEPT !.present = TRUE, !.uid = u, !.updateEmail = TRUE] :
                        u \in Uids}
    /\ store \in IF TruthyUid(userData.uid)
                  THEN {[NoStore EXCEPT !.email = e, !.confirmed = c,
                                        !.hasPassword = p,
                                        !.gdpr_consent = <<"0">>,
                                        !.acceptTos = <<"0">>] :
                            e \in {<<>>, EmailA}, c \in BOOLEAN, p \in BOOLEAN}
                  ELSE {NoStore}
    /\ (store.confirmed => store.email # <<>>)

\* Drafts and accounts of the consent and terms steps: every deployment
\* setting, a missing draft, and every stored flag; a new registrant's draft
\* may ask for the email step too.
InitFlags ==
    /\ config \in [requireEmailAddress : {FALSE}, gdpr_enabled : BOOLEAN,
                   termsOfUse : {<<>>, TermsText}]
    /\ priv = [canManageUsers |-> FALSE, editRights |-> FALSE]
    /\ userData \in {NoDraft} \cup
                    {[NoDraft EXCEPT !.present = TRUE, !.uid = u, !.updateEmail = b] :
                        u \in {NoUid, NumUid(1)}, b \in BOOLEAN}
    /\ (userData.updateEmail => userData.uid = NoUid)
    /\ store \in IF TruthyUid(userData.uid)
                  THEN {[NoStore EXCEPT !.email = EmailA, !.confirmed = TRUE,
                                        !.hasPassword = TRUE,
                                        !.gdpr_consent = g, !.acceptTos = a] :
                            g \in StoredFlags, a \in StoredFlags}
                  ELSE {NoStore}

Init ==
    /\ req = [uid |-> NumUid(1), emailChanged |-> 0]
    /\ interstitials = <<>>
    /\ pc = "idle"
    /\ last = NoOp("init")
    /\ (InitEmail \/ InitFlags)

-----------------------------------------------------------------------------
(* Interstitials.get: the bus runs the three built-in steps in order *)

Get ==
    /\ pc \in {"idle", "done", "failed"}
    /\ pc' = "email"
    /\ interstitials' = <<>>
    /\ last' = NoOp("get")
    /\ UNCHANGED <<config, req, priv, userData, store>>

-----------------------------------------------------------------------------
(* Interstitials.email *)

\* EmailApplies without the updateEmail test
EmailAppliesAlways(ud) == TRUE

\* the step applies to a draft flagged updateEmail
EmailApplies(ud) == ud.updateEmail

\* issuePasswordChallenge for one's own account only
issuePasswordChallengeSelfOnly(hasPassword, canManageUsers, uid, reqUid) ==
    hasPassword /\ uid = reqUid

issuePasswordChallenge(hasPassword, canManageUsers, uid, reqUid) ==
    /\ hasPassword
    /\ \/ (canManageUsers /\ uid = reqUid)
       \/ (~canManageUsers /\ TruthyUid(uid))

EmailLookups(ud) ==
    <<"admin.can", "hasPassword", "isValidationPending">>
        \o (IF TruthyUid(ud.uid) THEN <<"getUserField">> ELSE <<>>)

EmailInterstitial(ud) ==
    LET canManageUsers == priv.canManageUsers
        hasPassword == hasPasswordOf(ud.uid, store)
    IN  [template |-> "partials/email_update",
         data |-> [email |-> IF TruthyUid(ud.uid) THEN store.email ELSE Undefined,
                   requireEmailAddress |-> config.requireEmailAddress,
                   issuePasswordChallenge |->
                       issuePasswordChallenge(hasPassword, canManageUsers,
                                              ud.uid, req.uid),
                   hasPending |-> isValidationPending(ud.uid, store)],
         closure |-> [canManageUsers |-> canManageUsers,
                      hasPassword |-> hasPassword]]

EmailStep ==
    /\ pc = "email"
    /\ IF ~userData.present
       THEN /\ last' = [NoOp("email") EXCEPT !.result = "invalid-data",
                                             !.via = "throw"]
            /\ pc' = "failed"
            /\ UNCHANGED interstitials
       ELSE IF ~EmailApplies(userData)
       THEN /\ last' = NoOp("email")
            /\ pc' = "gdpr"
            /\ UNCHANGED interstitials
       ELSE /\ last' = [NoOp("email") EXCEPT !.trace = EmailLookups(userData)]
            /\ pc' = "gdpr"
            /\ interstitials' = Append(interstitials, EmailInterstitial(userData))
    /\ UNCHANGED <<config, req, priv, userData, store>>

-----------------------------------------------------------------------------
(* Interstitials.gdpr *)

\* GdprSkipped without the gdpr_enabled test
GdprSkippedDraftOnly(cfg, ud) == ud.present /\ ud.gdpr_consent

\* first test of the step: consent is not collected, or the draft has it
GdprSkipped(cfg, ud) == ~cfg.gdpr_enabled \/ (ud.present /\ ud.gdpr_consent)

\* StoredFlagSet without the lookup of the stored flag
StoredFlagSetNever(ud, flag) == FALSE

\* the stored flag of an existing account counts when it parses to non-zero
StoredFlagSet(ud, flag) == TruthyUid(ud.uid) /\ TruthyNum(ParseInt(flag))

GdprInterstitial ==
    [template |-> "partials/gdpr_consent",
     data |-> [digestEnabled |-> TRUE],
     closure |-> [canManageUsers |-> FALSE, hasPassword |-> FALSE]]

GdprStep ==
    /\ pc = "gdpr"
    /\ IF GdprSkipped(config, userData)
       THEN /\ last' = NoOp("gdpr")
            /\ pc' = "tou"
            /\ UNCHANGED interstitials
       ELSE IF ~userData.present
       THEN /\ last' = [NoOp("gdpr") EXCEPT !.result = "invalid-data",
                                            !.via = "throw"]
            /\ pc' = "failed"
            /\ UNCHANGED interstitials
       ELSE IF StoredFlagSet(userData, store.gdpr_consent)
       THEN /\ last' = [NoOp("gdpr") EXCEPT !.trace = <<"getObjectField">>]
            /\ pc' = "tou"
            /\ UNCHANGED interstitials
       ELSE /\ last' = [NoOp("gdpr") EXCEPT !.trace =
                            IF TruthyUid(userData.uid) THEN <<"getObjectField">>
                            ELSE <<>>]
            /\ pc' = "tou"
            /\ interstitials' = Append(interstitials, GdprInterstitial)
    /\ UNCHANGED <<config, req, priv, userData, store>>

-----------------------------------------------------------------------------
(* Interstitials.tou *)

TouSkipped(cfg, ud) == ~TruthyStr(cfg.termsOfUse) \/ ud.acceptTos

\* RenderedTerms without the parse.post filter
RenderedTermsRaw(cfg) == cfg.termsOfUse

\* the terms as put in the render data: the parse.post filter's output
RenderedTerms(cfg) ==
    ParsePost(IF TruthyStr(cfg.termsOfUse) THEN cfg.termsOfUse ELSE <<>>)

TouInterstitial ==
    [template |-> "partials/acceptTos",
     data |-> [termsOfUse |-> RenderedTerms(config)],
     closure |-> [canManageUsers |-> FALSE, hasPassword |-> FALSE]]

TouStep ==
    /\ pc = "tou"
    /\ IF ~userData.present
       THEN /\ last' = [NoOp("tou") EXCEPT !.result = "invalid-data",
                                           !.via = "throw"]
            /\ pc' = "failed"
            /\ UNCHANGED interstitials
       ELSE IF TouSkipped(config, userData)
       THEN /\ last' = NoOp("tou")
            /\ pc' = "done"
            /\ UNCHANGED interstitials
       ELSE IF StoredFlagSet(userData, store.acceptTos)
       THEN /\ last' = [NoOp("tou") EXCEPT !.trace = <<"getObjectField">>]
            /\ pc' = "done"
            /\ UNCHANGED interstitials
       ELSE /\ last' = [NoOp("tou") EXCEPT !.trace =
                            (IF TruthyUid(userData.uid) THEN <<"getObjectField">>
                             ELSE <<>>) \o <<"parse.post">>]
            /\ pc' = "done"
            /\ interstitials' = Append(interstitials, TouInterstitial)
    /\ UNCHANGED <<config, req, priv, userData, store>>

-----------------------------------------------------------------------------
(* The email interstitial's callback *)

\* formData.email after the callback's first statement
TrimmedEmail(e) == IF TruthyStr(e) THEN Trim(e) ELSE e

\* a non-empty email was submitted
HasEmail(e) == TruthyStr(e) /\ Len(e) > 0

isSelf(uid, reqUid) == ParseIntUid(uid) = ParseIntUid(reqUid)

\* Throttled without the admin:users test
ThrottledAnyone(canManageUsers, isPasswordCorrect) == ~isPasswordCorrect

\* the fixed delay is inserted
Throttled(canManageUsers, isPasswordCorrect) ==
    ~canManageUsers /\ ~isPasswordCorrect

\* the bus vetoed the email or its format is invalid
EmailRejected(allowed, email) == ~allowed \/ ~isEmailValid(email)

\* SameEmailError without the same-email test
SameEmailErrorSkipped(email, current, confirmed, canSend) == "none"

\* SameEmailError with the resend test inverted
SameEmailErrorInverted(email, current, confirmed, canSend) ==
    IF email # current THEN "none"
    ELSE IF confirmed THEN "email-nochange"
    ELSE IF canSend THEN "confirm-email-already-sent"
    ELSE "none"

\* errors when setting to the same email: the current email is refused when
\* it is confirmed, or when its validation cannot be sent again yet
SameEmailError(email, current, confirmed, canSend) ==
    IF email # current THEN "none"
    ELSE IF confirmed THEN "email-nochange"
    ELSE IF ~canSend THEN "confirm-email-already-sent"
    ELSE "none"

\* AdminEditingOther without the admin:users test
AdminEditingOtherAnyone(canManageUsers, uid, reqUid) ==
    StrictNotEqual(uid, reqUid)

\* AdminEditingOther with === in place of !==
AdminEditingOtherInverted(canManageUsers, uid, reqUid) ==
    canManageUsers /\ ~StrictNotEqual(uid, reqUid)

\* admins editing auto-confirm, unless editing their own email
AdminEditingOther(canManageUsers, uid, reqUid) ==
    canManageUsers /\ StrictNotEqual(uid, reqUid)

\* PasswordMissing never refusing
PasswordMissingNever(hasPassword, isPasswordCorrect) == FALSE

\* PasswordMissing without the hasPassword test
PasswordMissingAlways(hasPassword, isPasswordCorrect) == ~isPasswordCorrect

\* the edit-privilege branch refuses without the password
PasswordMissing(hasPassword, isPasswordCorrect) ==
    hasPassword /\ ~isPasswordCorrect

\* MayClear for administrators only
MayClearAdminOnly(current, hasPassword, isPasswordCorrect, canManageUsers) ==
    Len(current) > 0 /\ canManageUsers

\* the empty-submission branch removes the stored email
MayClear(current, hasPassword, isPasswordCorrect, canManageUsers) ==
    /\ Len(current) > 0
    /\ (~hasPassword \/ (hasPassword /\ isPasswordCorrect) \/ canManageUsers)

\* RegistrationRejected without the requireEmailAddress test
RegistrationRejectedVetoOnly(allowed, requireEmailAddress, email) == ~allowed

\* a new registrant's email is refused
RegistrationRejected(allowed, requireEmailAddress, email) ==
    ~allowed \/ (requireEmailAddress /\ ~HasEmail(email))

Failed(code, trace, st) ==
    [result |-> code, trace |-> trace, store |-> st, emailChanged |-> FALSE]

Succeeded(trace, st, changed) ==
    [result |-> "ok", trace |-> trace, store |-> st, emailChanged |-> changed]

\* the branch of a non-empty submission, after the same-email checks
ChangeEmail(uid, email, cl, o, st, t) ==
    IF AdminEditingOther(cl.canManageUsers, uid, req.uid)
    THEN IF ~o.available
         THEN Failed("email-taken", t \o <<"available">>, st)
         ELSE Succeeded(
                  t \o <<"available", "remove", "setUserField", "confirmByUid">>,
                  ConfirmByUid(SetEmailField(EmailRemove(st), email)), FALSE)
    ELSE IF canEditPriv(req.uid, uid, priv.editRights)
    THEN IF PasswordMissing(cl.hasPassword, o.isPasswordCorrect)
         THEN Failed("invalid-password", t, st)
         ELSE Succeeded(
                  t \o <<"sendValidationEmail">>
                    \o (IF o.sendFails THEN <<"winston.error">> ELSE <<>>),
                  SendValidationEmail(st, o.sendFails), TRUE)
    ELSE Failed("no-privileges", t, st)

\* the callback on a draft with a uid
ExistingAccount(uid, email, cl, o, st) ==
    LET joined == <<"isPasswordCorrect", "canEdit", "getUserFields",
                    "saveEmail", "join">>
        t0 == joined \o (IF Throttled(cl.canManageUsers, o.isPasswordCorrect)
                         THEN <<"sleep">> ELSE <<>>)
        t1 == t0 \o (IF email = st.email /\ ~st.confirmed
                     THEN <<"canSendValidation">> ELSE <<>>)
    IN  IF HasEmail(email)
        THEN IF EmailRejected(o.allowed, email)
             THEN Failed(o.error, t0, st)
             ELSE IF SameEmailError(email, st.email, st.confirmed,
                                    canSendValidation(st)) # "none"
             THEN Failed(SameEmailError(email, st.email, st.confirmed,
                                        canSendValidation(st)), t1, st)
             ELSE ChangeEmail(uid, email, cl, o, st, t1)
        ELSE IF config.requireEmailAddress
             THEN Failed("invalid-email", t0, st)
             ELSE IF MayClear(st.email, cl.hasPassword, o.isPasswordCorrect,
                              cl.canManageUsers)
             THEN Succeeded(t0 \o <<"remove">>, EmailRemove(st), FALSE)
             ELSE Succeeded(t0, st, FALSE)

\* the callback on a draft without a uid
NewAccount(email, o, st) ==
    IF RegistrationRejected(o.allowed, config.requireEmailAddress, email)
    THEN Failed(o.error, <<"saveEmail">>, st)
    ELSE Succeeded(<<"saveEmail">>, st, FALSE)

Asked(r, lookup) == \E k \in DOMAIN r.trace : r.trace[k] = lookup

EmailResult(ud, email, cl, o, st) ==
    IF TruthyUid(ud.uid)
    THEN ExistingAccount(ud.uid, email, cl, o, st)
    ELSE NewAccount(email, o, st)

\* the collaborators' answers to a run of the callback: every answer of the
\* password check and of the user.saveEmail filter (allowed, and the error
\* text, which a plugin may replace), of email.available and of the
\* validation email's delivery.  An answer the run does not ask for, and an
\* error text it does not throw, is left at its default; which ones it asks
\* for shows on a probe run, since that depends on neither.
Oracles(ud, email, cl, st) ==
    UNION {
        LET probe == EmailResult(ud, email, cl,
                                 [NoOracles EXCEPT !.isPasswordCorrect = pw,
                                                   !.allowed = al,
                                                   !.error = "plugin-error"], st)
        IN  [isPasswordCorrect : IF Asked(probe, "isPasswordCorrect")
                                 THEN {pw} ELSE {NoOracles.isPasswordCorrect},
             allowed : {al},
             error : IF probe.result = "plugin-error"
                     THEN {"invalid-email", "plugin-error"}
                     ELSE {NoOracles.error},
             available : IF Asked(probe, "available")
                         THEN BOOLEAN ELSE {NoOracles.available},
             sendFails : IF Asked(probe, "sendValidationEmail")
                         THEN BOOLEAN ELSE {NoOracles.sendFails}] :
        pw \in BOOLEAN, al \in BOOLEAN}

\* DraftAfterEmail applied before the outcome is known
DraftAfterEmailEager(ud, email, result) ==
    [ud EXCEPT !.email = IF TruthyUid(ud.uid) THEN @ ELSE email,
               !.updateEmail = FALSE]

\* DraftAfterEmail without the delete of updateEmail
DraftAfterEmailKeepsFlag(ud, email, result) ==
    IF result # "ok" THEN ud
    ELSE [ud EXCEPT !.email = IF TruthyUid(ud.uid) THEN @ ELSE email]

\* the draft after the callback: a new registrant's email is staged, and a
\* successful run deletes updateEmail
DraftAfterEmail(ud, email, result) ==
    IF result # "ok" THEN ud
    ELSE [ud EXCEPT !.email = IF TruthyUid(ud.uid) THEN @ ELSE email,
                    !.updateEmail = FALSE]

EmailCallback(i) ==
    /\ pc = "done"
    /\ interstitials[i].template = "partials/email_update"
    /\ \E e \in FormEmails :
       \E o \in Oracles(userData, TrimmedEmail(e), interstitials[i].closure,
                        store) :
          LET email == TrimmedEmail(e)
              r == EmailResult(userData, email, interstitials[i].closure, o, store)
          IN  /\ last' = [op |-> "emailCb", idx |-> i, result |-> r.result,
                          via |-> IF r.result = "ok" THEN "return" ELSE "throw",
                          trace |-> r.trace,
                          form |-> [NoForm EXCEPT !.email = e], oracles |-> o,
                          repeat |-> Resubmits("emailCb", i,
                                               [NoForm EXCEPT !.email = e], o)]
              /\ store' = r.store
              /\ req' = [req EXCEPT !.emailChanged =
                            IF r.emailChanged THEN 1 ELSE @]
              /\ userData' = DraftAfterEmail(userData, email, r.result)
    /\ UNCHANGED <<config, priv, interstitials, pc>>

-----------------------------------------------------------------------------
(* The consent and terms interstitials' callbacks *)

\* GdprAgreed with || in place of &&
GdprAgreedEither(form) ==
    form.gdpr_agree_data = "on" \/ form.gdpr_agree_email = "on"

GdprAgreed(form) ==
    form.gdpr_agree_data = "on" /\ form.gdpr_agree_email = "on"

GdprCallback(i) ==
    /\ pc = "done"
    /\ interstitials[i].template = "partials/gdpr_consent"
    /\ \E d \in Toggles, m \in Toggles :
          LET form == [NoForm EXCEPT !.gdpr_agree_data = d,
                                     !.gdpr_agree_email = m]
              ud == IF GdprAgreed(form)
                    THEN [userData EXCEPT !.gdpr_consent = TRUE]
                    ELSE userData
          IN  /\ userData' = ud
              /\ last' = [NoOp("gdprCb") EXCEPT
                            !.idx = i, !.form = form, !.via = "next",
                            !.repeat = Resubmits("gdprCb", i, form, NoOracles),
                            !.result = IF ud.gdpr_consent THEN "ok"
                                       ELSE "gdpr_consent_denied"]
    /\ UNCHANGED <<config, req, priv, store, interstitials, pc>>

TouAgreed(form) == form.agree_terms = "on"

TouCallback(i) ==
    /\ pc = "done"
    /\ interstitials[i].template = "partials/acceptTos"
    /\ \E a \in Toggles :
          LET form == [NoForm EXCEPT !.agree_terms = a]
              ud == IF TouAgreed(form)
                    THEN [userData EXCEPT !.acceptTos = TRUE]
                    ELSE userData
          IN  /\ userData' = ud
              /\ last' = [NoOp("touCb") EXCEPT
                            !.idx = i, !.form = form, !.via = "next",
                            !.repeat = Resubmits("touCb", i, form, NoOracles),
                            !.result = IF ud.acceptTos THEN "ok"
                                       ELSE "terms_of_use_error"]
    /\ UNCHANGED <<config, req, priv, store, interstitials, pc>>

-----------------------------------------------------------------------------
(* Time: the resend interval of a sent validation email elapses *)

IntervalElapses ==
    /\ store.validation = "recent"
    /\ store' = [store EXCEPT !.validation = "stale"]
    /\ last' = NoOp("elapse")
    /\ UNCHANGED <<config, req, priv, userData, interstitials, pc>>

-----------------------------------------------------------------------------

Next ==
    \/ Get
    \/ EmailStep
    \/ GdprStep
    \/ TouStep
    \/ \E i \in DOMAIN interstitials : EmailCallback(i)
    \/ \E i \in DOMAIN interstitials : GdprCallback(i)
    \/ \E i \in DOMAIN interstitials : TouCallback(i)
    \/ IntervalElapses

Spec == Init /\ [][Next]_vars

-----------------------------------------------------------------------------
(* The steps called on their own: each is an exported function, and a caller *)
(* other than the bus may run any of them on a fresh context.                *)

Steps == {"email", "gdpr", "tou"}

Invoke ==
    /\ \E s \in Steps : pc' = s
    /\ interstitials' = <<>>
    /\ last' = NoOp("invoke")
    /\ UNCHANGED <<config, req, priv, userData, store>>

NextDirect ==
    \/ Invoke
    \/ EmailStep
    \/ GdprStep
    \/ TouStep

SpecDirect == Init /\ [][NextDirect]_vars

-----------------------------------------------------------------------------
(* The administrator's branch of the email callback, one await at a time:   *)
(* lines 99-101 await three store operations in turn, each of which may     *)
(* reject, and nothing catches a rejection or undoes an earlier operation.  *)
(* Between two awaits the store is in the state the last operation left,    *)
(* which is what any other request reads.                                   *)

\* AdminSequence with the email set before the old binding is removed
AdminSequenceSetFirst == <<"setUserField", "remove", "confirmByUid">>

\* the store operations of lines 99-101, in the order they are awaited
AdminSequence == <<"remove", "setUserField", "confirmByUid">>

\* pc names the store operation awaited next
InAdmin == \E k \in DOMAIN AdminSequence : pc = AdminSequence[k]

\* the operation awaited after op, or "done" after the last one
NextOp(op) ==
    LET k == CHOOSE j \in DOMAIN AdminSequence : AdminSequence[j] = op
    IN  IF k < Len(AdminSequence) THEN AdminSequence[k + 1] ELSE "done"

ApplyStoreOp(op, st, email) ==
    CASE op = "remove" -> EmailRemove(st)
      [] op = "setUserField" -> SetEmailField(st, email)
      [] op = "confirmByUid" -> ConfirmByUid(st)

\* the callback up to line 98: every check of the administrator's branch
\* passed, and the first store operation is about to be awaited
AdminBegin(i) ==
    /\ pc = "done"
    /\ interstitials[i].template = "partials/email_update"
    /\ \E e \in FormEmails :
       \E o \in Oracles(userData, TrimmedEmail(e), interstitials[i].closure,
                        store) :
          LET r == EmailResult(userData, TrimmedEmail(e),
                               interstitials[i].closure, o, store)
          IN  /\ Asked(r, "confirmByUid")
              /\ last' = [op |-> "emailCb", idx |-> i, result |-> "pending",
                          via |-> "await",
                          trace |-> SubSeq(r.trace, 1,
                                           Len(r.trace) - Len(AdminSequence)),
                          form |-> [NoForm EXCEPT !.email = e], oracles |-> o,
                          repeat |-> FALSE]
    /\ pc' = AdminSequence[1]
    /\ UNCHANGED <<config, req, priv, userData, store, interstitials>>

\* one awaited store operation: it rejects, and the callback throws with
\* the earlier operations in effect, or it takes effect and the callback
\* goes on; after the last one line 145 deletes updateEmail
StoreOp ==
    /\ InAdmin
    /\ \E rejects \in BOOLEAN :
          IF rejects
          THEN /\ last' = [last EXCEPT !.result = "store-error",
                                       !.via = "throw",
                                       !.trace = @ \o <<pc, "rejected">>]
               /\ pc' = "done"
               /\ UNCHANGED <<store, userData>>
          ELSE /\ store' = ApplyStoreOp(pc, store, TrimmedEmail(last.form.email))
               /\ pc' = NextOp(pc)
               /\ last' = [last EXCEPT
                              !.trace = Append(@, pc),
                              !.result = IF NextOp(pc) = "done" THEN "ok"
                                         ELSE "pending",
                              !.via = IF NextOp(pc) = "done" THEN "return"
                                      ELSE "await"]
               /\ userData' = IF NextOp(pc) = "done"
                               THEN DraftAfterEmail(userData,
                                        TrimmedEmail(last.form.email), "ok")
                               ELSE userData
    /\ UNCHANGED <<config, req, priv, interstitials>>

NextStore ==
    \/ Get
    \/ EmailStep
    \/ GdprStep
    \/ TouStep
    \/ \E i \in DOMAIN interstitials : AdminBegin(i)
    \/ StoreOp

SpecStore == Init /\ [][NextStore]_vars

-----------------------------------------------------------------------------
(* Vocabulary of the properties.  l is a value of `last` that records a run  *)
(* of the email callback; the list of interstitials does not change while    *)
(* callbacks run, so its closure is read in the state before or after.       *)

IsEmailCb(l) == l.op = "emailCb"

\* the email the run worked on
Submitted(l) == TrimmedEmail(l.form.email)

\* the values the interstitial's closure captured
Captured(l) == interstitials[l.idx].closure

StoreOps == {"remove", "setUserField", "confirmByUid", "sendValidationEmail"}

\* the run touched no email binding and sent nothing
NoStoreOp(l) == \A x \in StoreOps : ~Asked(l, x)

\* the run is on an existing account and a non-empty email was submitted
ExistingWithEmail(l) ==
    IsEmailCb(l) /\ TruthyUid(userData.uid) /\ HasEmail(Submitted(l))

\* line 81 let the submission through
PassedValidation(l) == l.oracles.allowed /\ isEmailValid(Submitted(l))

RequesterCanEdit == canEditPriv(req.uid, userData.uid, priv.editRights)

\* the run left the store, the session and the draft as they were
NothingChanged == store' = store /\ req' = req /\ userData' = userData

-----------------------------------------------------------------------------
(* C1 *)

\* C1 as stated: every non-empty submission by a non-administrator for an
\* account that is not the requester's fails with no-privileges, and no
\* email is set, removed, confirmed or sent for validation.
C1_AsStated ==
    (/\ ExistingWithEmail(last)
     /\ ~Captured(last).canManageUsers
     /\ ~isSelf(userData.uid, req.uid))
    => (last.result = "no-privileges" /\ NoStoreOp(last))

\* C1: a requester who can neither administer users nor edit the target
\* account never changes its email, whatever the password check answered:
\* every non-empty submission fails and sets, removes, confirms and sends
\* nothing.  The error is no-privileges unless an earlier check fails first:
\* the filter's error for a vetoed or malformed email, email-nochange for the
\* current confirmed email, confirm-email-already-sent for the current
\* unconfirmed email within the resend interval.
C1_NoPrivileges ==
    [][(/\ ExistingWithEmail(last')
        /\ ~Captured(last').canManageUsers
        /\ ~RequesterCanEdit)
       => (/\ NothingChanged
           /\ NoStoreOp(last')
           /\ last'.via = "throw"
           /\ last'.result =
                IF ~PassedValidation(last') THEN last'.oracles.error
                ELSE IF Submitted(last') = store.email /\ store.confirmed
                THEN "email-nochange"
                ELSE IF Submitted(last') = store.email /\ ~canSendValidation(store)
                THEN "confirm-email-already-sent"
                ELSE "no-privileges")]_vars

\* a stranger was refused with no-privileges although the password was right
C1_Witness ==
    /\ ExistingWithEmail(last)
    /\ ~Captured(last).canManageUsers
    /\ ~RequesterCanEdit
    /\ last.oracles.isPasswordCorrect
    /\ last.result = "no-privileges"

-----------------------------------------------------------------------------
(* C2 *)

\* C2 as stated: submitting the stored, confirmed email fails with
\* email-nochange and performs no store operation.
C2_AsStated ==
    [][(/\ ExistingWithEmail(last')
        /\ Submitted(last') = store.email
        /\ store.confirmed)
       => (last'.result = "email-nochange" /\ NoStoreOp(last'))]_vars

\* C2: submitting the stored, confirmed email always fails and never
\* mutates, for every requester and password outcome; the error is
\* email-nochange unless the filter vetoed the submission or its format is
\* invalid, and then it is the filter's error.
C2_NoChange ==
    [][(/\ ExistingWithEmail(last')
        /\ Submitted(last') = store.email
        /\ store.confirmed)
       => (/\ NothingChanged
           /\ NoStoreOp(last')
           /\ last'.via = "throw"
           /\ last'.result = IF PassedValidation(last') THEN "email-nochange"
                             ELSE last'.oracles.error)]_vars

\* an administrator with the right password resubmitted another account's
\* confirmed email and got email-nochange
C2_Witness ==
    /\ ExistingWithEmail(last)
    /\ Submitted(last) = store.email
    /\ store.confirmed
    /\ Captured(last).canManageUsers
    /\ ~isSelf(userData.uid, req.uid)
    /\ last.oracles.isPasswordCorrect
    /\ last.result = "email-nochange"

-----------------------------------------------------------------------------
(* C3 *)

\* the requester may change the account's email: as an administrator of
\* another account, or with edit privilege and the password where one is set
MayChange(l) ==
    \/ AdminEditingOther(Captured(l).canManageUsers, userData.uid, req.uid)
    \/ (RequesterCanEdit
        /\ ~PasswordMissing(Captured(l).hasPassword, l.oracles.isPasswordCorrect))

\* the stored, unconfirmed email was submitted and passed line 81
CurrentUnconfirmed(l) ==
    /\ ExistingWithEmail(l)
    /\ Submitted(l) = store.email
    /\ ~store.confirmed
    /\ PassedValidation(l)

\* C3 as stated: the current, unconfirmed email fails with
\* confirm-email-already-sent within the interval, and after it every
\* requester allowed to change the email gets the validation email re-sent.
C3_AsStated ==
    [][CurrentUnconfirmed(last')
       => (/\ ~canSendValidation(store)
               => last'.result = "confirm-email-already-sent"
           /\ (canSendValidation(store) /\ MayChange(last'))
               => (last'.result = "ok" /\ Asked(last', "sendValidationEmail")))]_vars

\* C3: the current, unconfirmed email, when the filter lets it through,
\* fails with confirm-email-already-sent and changes nothing while the
\* resend interval has not elapsed; once it has, a requester with edit
\* privilege who is not an administrator editing another account, and who
\* passed the password check where a password is set, gets the validation
\* email re-sent and the session flagged; an administrator editing another
\* account gets no validation email: the address is checked for availability
\* and, when available, set and confirmed.
C3_Resend ==
    [][CurrentUnconfirmed(last')
       => (/\ ~canSendValidation(store)
               => (/\ last'.result = "confirm-email-already-sent"
                   /\ NothingChanged
                   /\ NoStoreOp(last'))
           /\ (/\ canSendValidation(store)
               /\ ~AdminEditingOther(Captured(last').canManageUsers,
                                     userData.uid, req.uid)
               /\ MayChange(last'))
               => (/\ last'.result = "ok"
                   /\ Asked(last', "sendValidationEmail")
                   /\ req'.emailChanged = 1)
           /\ (/\ canSendValidation(store)
               /\ AdminEditingOther(Captured(last').canManageUsers,
                                    userData.uid, req.uid))
               => (/\ ~Asked(last', "sendValidationEmail")
                   /\ last'.result = IF last'.oracles.available THEN "ok"
                                     ELSE "email-taken"
                   /\ last'.result = "ok" => store'.confirmed))]_vars

\* the validation email of the current email was sent again after the
\* interval of an earlier one had elapsed
C3_Witness ==
    /\ IsEmailCb(last)
    /\ last.result = "ok"
    /\ Asked(last, "canSendValidation")
    /\ Asked(last, "sendValidationEmail")
    /\ ~last.oracles.sendFails
    /\ store.validation = "recent"
    /\ Submitted(last) = store.email

-----------------------------------------------------------------------------
(* C4 *)

\* the trace holds a, b and c in this order
InOrder(t, a, b, c) ==
    \E i, j, k \in DOMAIN t : i < j /\ j < k /\ t[i] = a /\ t[j] = b /\ t[k] = c

\* C4: when an administrator edits the email of another account and the
\* submitted address passes validation, is not the account's current one and
\* is available, the callback succeeds whatever the password check answered:
\* the old binding is removed, the new email set and then confirmed, no
\* validation email is sent, session.emailChanged is left alone and
\* updateEmail is cleared from the draft.
C4_AdminAutoConfirm ==
    [][(/\ ExistingWithEmail(last')
        /\ Captured(last').canManageUsers
        /\ ~isSelf(userData.uid, req.uid)
        /\ PassedValidation(last')
        /\ Submitted(last') # store.email
        /\ last'.oracles.available)
       => (/\ last'.result = "ok"
           /\ last'.via = "return"
           /\ InOrder(last'.trace, "remove", "setUserField", "confirmByUid")
           /\ store'.email = Submitted(last')
           /\ store'.confirmed
           /\ ~Asked(last', "sendValidationEmail")
           /\ req' = req
           /\ ~userData'.updateEmail)]_vars

\* an administrator replaced the email of another, password-protected
\* account although the password check failed
C4_Witness ==
    /\ ExistingWithEmail(last)
    /\ Captured(last).canManageUsers
    /\ ~isSelf(userData.uid, req.uid)
    /\ Captured(last).hasPassword
    /\ ~last.oracles.isPasswordCorrect
    /\ last.result = "ok"
    /\ Asked(last, "confirmByUid")
    /\ store.email = EmailB
    /\ store.confirmed

-----------------------------------------------------------------------------
(* C5 *)

\* an empty or whitespace-only email was submitted where one is required
ClearedWhereRequired(l) ==
    IsEmailCb(l) /\ config.requireEmailAddress /\ ~HasEmail(Submitted(l))

\* C5 as stated: clearing the email where the deployment requires one fails
\* with invalid-email, for existing and new accounts alike.
C5_AsStated ==
    ClearedWhereRequired(last) => last.result = "invalid-email"

\* C5: clearing the email where the deployment requires one always fails and
\* leaves the stored email, the session and the draft unchanged; the error is
\* invalid-email for an existing account, and for a new account the error the
\* user.saveEmail filter returned, which is invalid-email unless a plugin
\* replaced it.
C5_RequiredEmail ==
    [][ClearedWhereRequired(last')
       => (/\ NothingChanged
           /\ NoStoreOp(last')
           /\ last'.via = "throw"
           /\ last'.result = IF TruthyUid(userData.uid) THEN "invalid-email"
                             ELSE last'.oracles.error)]_vars

\* a new registrant's whitespace-only email was refused with invalid-email
C5_Witness ==
    /\ ClearedWhereRequired(last)
    /\ ~TruthyUid(userData.uid)
    /\ last.form.email = <<" ">>
    /\ last.oracles.allowed
    /\ last.result = "invalid-email"
    /\ userData.updateEmail

-----------------------------------------------------------------------------
(* C6 *)

\* C6: on a draft without updateEmail the email step returns the context as
\* it is: no interstitial is appended, no privilege, password or store
\* lookup is made, and the draft is not modified.
C6_PassThrough ==
    [][(/\ pc = "email"
        /\ last'.op = "email"
        /\ userData.present
        /\ ~userData.updateEmail)
       => (/\ interstitials' = interstitials
           /\ last'.trace = <<>>
           /\ last'.result = "ok"
           /\ last'.via = "return"
           /\ NothingChanged)]_vars

\* the email step ran on a draft without updateEmail and appended nothing
C6_Witness ==
    /\ last.op = "email"
    /\ pc = "gdpr"
    /\ userData.present
    /\ ~userData.updateEmail
    /\ interstitials = <<>>

-----------------------------------------------------------------------------
(* C7 *)

BothToggles(l) ==
    l.form.gdpr_agree_data = "on" /\ l.form.gdpr_agree_email = "on"

\* C7 as stated: on every invocation, both toggles 'on' set the consent flag
\* and signal success, any other combination signals the denial, and the
\* callback answers through the continuation.
C7_AsStated ==
    last.op = "gdprCb"
    => (/\ last.via = "next"
        /\ BothToggles(last) => (userData.gdpr_consent /\ last.result = "ok")
        /\ ~BothToggles(last) => last.result = "gdpr_consent_denied")

\* C7: the consent callback never throws and answers through the
\* continuation; both toggles 'on' set the draft's consent flag and signal
\* success; any other combination leaves the draft as it was and signals the
\* consent-denied error, unless the draft's consent flag was already truthy
\* (an earlier affirmative submission), and then it signals success.
C7_Consent ==
    [][last'.op = "gdprCb"
       => (/\ last'.via = "next"
           /\ store' = store /\ req' = req
           /\ BothToggles(last')
               => (/\ userData' = [userData EXCEPT !.gdpr_consent = TRUE]
                   /\ last'.result = "ok")
           /\ ~BothToggles(last')
               => (/\ userData' = userData
                   /\ last'.result = IF userData.gdpr_consent THEN "ok"
                                     ELSE "gdpr_consent_denied"))]_vars

\* one toggle alone was 'on' and the consent was denied
C7_Witness ==
    /\ last.op = "gdprCb"
    /\ last.form.gdpr_agree_data = "on"
    /\ last.form.gdpr_agree_email # "on"
    /\ last.result = "gdpr_consent_denied"
    /\ last.via = "next"
    /\ ~userData.gdpr_consent

-----------------------------------------------------------------------------
(* C8 *)

\* every terms interstitial renders the parse.post output of the terms
TermsFiltered(list) ==
    \A i \in DOMAIN list :
        list[i].template = "partials/acceptTos"
            => list[i].data.termsOfUse = ParsePost(config.termsOfUse)

\* C8 as stated: the rendered terms are the filter's output, acceptTos is set
\* only when the toggle is 'on', and otherwise the terms-rejection error is
\* signalled through the continuation.
C8_AsStated ==
    /\ TermsFiltered(interstitials)
    /\ last.op = "touCb"
        => (/\ last.via = "next"
            /\ last.form.agree_terms = "on"
                => (userData.acceptTos /\ last.result = "ok")
            /\ last.form.agree_terms # "on"
                => last.result = "terms_of_use_error")

\* C8: the terms text in the interstitial's render data is always the
\* parse.post filter's output on the configured text; the terms callback
\* answers through the continuation and never throws; it sets acceptTos only
\* when the agree-terms toggle is 'on'; otherwise it leaves the draft as it
\* was and signals the terms-rejection error, unless the draft's acceptTos
\* flag was already truthy, and then it signals success.
C8_Terms ==
    [][/\ TermsFiltered(interstitials')
       /\ last'.op = "touCb"
           => (/\ last'.via = "next"
               /\ store' = store /\ req' = req
               /\ last'.form.agree_terms = "on"
                   => (/\ userData' = [userData EXCEPT !.acceptTos = TRUE]
                       /\ last'.result = "ok")
               /\ last'.form.agree_terms # "on"
                   => (/\ userData' = userData
                       /\ last'.result = IF userData.acceptTos THEN "ok"
                                         ELSE "terms_of_use_error"))]_vars

\* the filtered terms were rendered and then rejected by the submission
C8_Witness ==
    /\ last.op = "touCb"
    /\ interstitials[last.idx].data.termsOfUse = <<"<p>", "t", "</p>">>
    /\ last.form.agree_terms = "off"
    /\ last.result = "terms_of_use_error"
    /\ ~userData.acceptTos

-----------------------------------------------------------------------------
(* C9 *)

StoredNonZero(flag) == ParseInt(flag) # 0 /\ ParseInt(flag) # NaN

\* C9: a callback that succeeded leaves its flag on the draft (updateEmail
\* cleared, gdpr_consent or acceptTos truthy), the flag stays, and a step run
\* on a draft with its flag appends no interstitial; for an existing account
\* the consent and terms steps also append nothing when the stored flag
\* parses to a non-zero integer.
C9_ReentrySkips ==
    [][/\ (last'.op = "emailCb" /\ last'.result = "ok") => ~userData'.updateEmail
       /\ (last'.op = "gdprCb" /\ last'.result = "ok") => userData'.gdpr_consent
       /\ (last'.op = "touCb" /\ last'.result = "ok") => userData'.acceptTos
       /\ (userData.present /\ ~userData.updateEmail) => ~userData'.updateEmail
       /\ userData.gdpr_consent => userData'.gdpr_consent
       /\ userData.acceptTos => userData'.acceptTos
       /\ (pc = "email" /\ last'.op = "email" /\ userData.present
             /\ ~userData.updateEmail)
           => (interstitials' = interstitials /\ last'.result = "ok")
       /\ (pc = "gdpr" /\ last'.op = "gdpr" /\ userData.present
             /\ \/ userData.gdpr_consent
                \/ (TruthyUid(userData.uid) /\ StoredNonZero(store.gdpr_consent)))
           => (interstitials' = interstitials /\ last'.result = "ok")
       /\ (pc = "tou" /\ last'.op = "tou" /\ userData.present
             /\ \/ userData.acceptTos
                \/ (TruthyUid(userData.uid) /\ StoredNonZero(store.acceptTos)))
           => (interstitials' = interstitials /\ last'.result = "ok")]_vars

\* all three callbacks had succeeded on a new registrant's draft, and the
\* next run of the three steps appended nothing
C9_Witness ==
    /\ pc = "done"
    /\ last.op = "tou"
    /\ interstitials = <<>>
    /\ config.gdpr_enabled
    /\ TruthyStr(config.termsOfUse)
    /\ userData.present
    /\ userData.email = EmailB
    /\ ~userData.updateEmail
    /\ userData.gdpr_consent
    /\ userData.acceptTos

-----------------------------------------------------------------------------
(* C10 *)

Callbacks == {"emailCb", "gdprCb", "touCb"}

SameOutcome == last'.result = last.result /\ NothingChanged

\* C10 as stated: a callback invoked twice in a row with the same formData
\* ends as the first invocation ended: same outcome, same draft, same store.
C10_AsStated ==
    [][(last'.op \in Callbacks /\ last'.repeat) => SameOutcome]_vars

\* the first run set and confirmed the email
FirstConfirmed == last.result = "ok" /\ Asked(last, "confirmByUid")

\* the first run sent the validation email of the current email again
FirstResent ==
    /\ last.result = "ok"
    /\ Asked(last, "canSendValidation")
    /\ Asked(last, "sendValidationEmail")
    /\ ~last.oracles.sendFails

\* C10: a callback invoked twice in a row with the same formData ends as the
\* first invocation ended (same outcome, same draft, session and store), with
\* two exceptions of the email callback, in which the second invocation
\* fails and changes nothing: after a run that set and confirmed the email
\* (administrator editing another account) it fails with email-nochange, and
\* after a run that re-sent the validation email of the current unconfirmed
\* email it fails with confirm-email-already-sent.
C10_Resubmission ==
    [][(last'.op \in Callbacks /\ last'.repeat)
       => IF last.op = "emailCb" /\ FirstConfirmed
          THEN last'.result = "email-nochange" /\ NothingChanged
          ELSE IF last.op = "emailCb" /\ FirstResent
          THEN last'.result = "confirm-email-already-sent" /\ NothingChanged
          ELSE SameOutcome]_vars

\* a form that had succeeded in sending a validation email was submitted
\* again and succeeded again
C10_Witness ==
    /\ last.op = "emailCb"
    /\ last.repeat
    /\ last.result = "ok"
    /\ Asked(last, "sendValidationEmail")
    /\ store.validation = "recent"

-----------------------------------------------------------------------------
(* C11 *)

\* the run reached the edit-privilege branch with a new address: the
\* requester has edit privilege, the branch of an administrator editing
\* another account was not taken, and the address passed line 81 and is not
\* the stored one
EditBranchNewEmail(l) ==
    /\ ExistingWithEmail(l)
    /\ RequesterCanEdit
    /\ ~AdminEditingOther(Captured(l).canManageUsers, userData.uid, req.uid)
    /\ PassedValidation(l)
    /\ Submitted(l) # store.email

\* the password check passed, or the account has no password
PasswordGiven(l) == l.oracles.isPasswordCorrect \/ ~Captured(l).hasPassword

-----------------------------------------------------------------------------
(* C12 *)

\* the run is on a draft without a uid
NewAccountRun(l) == IsEmailCb(l) /\ ~TruthyUid(userData.uid)

\* the filter left allowed = true, and the deployment does not require an
\* email or a non-empty one was submitted
RegistrationAccepted(l) ==
    /\ l.oracles.allowed
    /\ (~config.requireEmailAddress \/ HasEmail(Submitted(l)))

\* a string with no blank at either end
NoOuterBlank(e) ==
    HasEmail(e) => (Head(e) \notin WhiteSpace /\ e[Len(e)] \notin WhiteSpace)

\* C12: for a draft without a uid the email callback succeeds exactly when
\* the user.saveEmail filter leaves allowed = true and the deployment does
\* not require an email or a non-empty one was submitted; on success the
\* draft gains the submitted email, trimmed, and updateEmail is gone; on
\* failure the filter's error is thrown and the draft is as it was; the
\* account store and the session are never touched.
C12_NewAccount ==
    [][NewAccountRun(last')
       => (/\ last'.result = "ok" <=> RegistrationAccepted(last')
           /\ last'.result = "ok"
               => (/\ last'.via = "return"
                   /\ userData' = [userData EXCEPT
                                      !.email = Submitted(last'),
                                      !.updateEmail = FALSE]
                   /\ NoOuterBlank(userData'.email))
           /\ last'.result # "ok"
               => (/\ last'.via = "throw"
                   /\ last'.result = last'.oracles.error
                   /\ userData' = userData)
           /\ store' = store
           /\ req' = req
           /\ NoStoreOp(last'))]_vars

\* a new registrant submitted EmailA padded with blanks where an email is
\* required; the draft holds EmailA and no updateEmail
C12_Witness ==
    /\ NewAccountRun(last)
    /\ config.requireEmailAddress
    /\ last.form.email = <<" ", "a", "@", " ">>
    /\ last.result = "ok"
    /\ userData.email = <<"a", "@">>
    /\ ~userData.updateEmail

-----------------------------------------------------------------------------
(* C13 *)

\* a step ran on a context without userData
StepWithoutDraft(l) == l.op \in Steps /\ ~userData.present

\* C13 as stated: without userData each of the three steps raises
\* invalid-data and appends no interstitial, whatever the configuration.
C13_AsStated ==
    [][StepWithoutDraft(last')
       => (last'.result = "invalid-data" /\ interstitials' = interstitials)]_vars

\* C13: without userData no step appends an interstitial or changes
\* anything; the email and terms steps always raise invalid-data; the
\* consent step raises invalid-data only where consent collection is
\* enabled, and where it is disabled it returns the context as it is.
C13_MissingDraft ==
    [][StepWithoutDraft(last')
       => (/\ interstitials' = interstitials
           /\ NothingChanged
           /\ last'.trace = <<>>
           /\ IF last'.op = "gdpr" /\ ~config.gdpr_enabled
              THEN last'.result = "ok" /\ last'.via = "return"
              ELSE last'.result = "invalid-data" /\ last'.via = "throw")]_vars

\* the consent step, called where consent collection is enabled, raised
\* invalid-data on a context without userData
C13_Witness ==
    /\ last.op = "gdpr"
    /\ ~userData.present
    /\ config.gdpr_enabled
    /\ last.result = "invalid-data"
    /\ last.via = "throw"
    /\ pc = "failed"
    /\ interstitials = <<>>

-----------------------------------------------------------------------------
(* C14 *)

\* the run is on a draft with a uid
ExistingRun(l) == IsEmailCb(l) /\ TruthyUid(userData.uid)

\* the requester can administer users or has edit privilege on the account
Authorized(l) == Captured(l).canManageUsers \/ RequesterCanEdit

-----------------------------------------------------------------------------
(* C15 *)

\* the step belongs to a run of the administrator's branch
AdminChangeStep == InAdmin \/ InAdmin'

\* C15 as stated: the three store operations take effect all together or not
\* at all: every step of the administrator's branch leaves the store as it
\* was or takes it to the new email, set and confirmed.
C15_AsStated ==
    [][AdminChangeStep
       => \/ store' = store
          \/ (store'.email = Submitted(last') /\ store'.confirmed)]_vars

\* C15: the administrator's email change is a sequence, not a transaction.
\* The three store operations are awaited one after another in the order
\* remove, set, confirm, each taking effect on its own: after the removal
\* the account has no email, after the set it has the new email unconfirmed.
\* A rejected operation makes the callback throw, with the effects of the
\* operations before it kept and updateEmail left on the draft; only when
\* all three took effect is the new email set and confirmed and updateEmail
\* deleted.
C15_Sequential ==
    [][/\ (~InAdmin /\ InAdmin') => (pc' = "remove" /\ store' = store)
       /\ pc = "setUserField" => (store.email = <<>> /\ ~store.confirmed)
       /\ pc = "confirmByUid"
           => (store.email = Submitted(last) /\ ~store.confirmed)
       /\ InAdmin
           => IF last'.result = "store-error"
              THEN /\ store' = store
                   /\ userData' = userData
                   /\ last'.via = "throw"
                   /\ pc' = "done"
              ELSE /\ pc = "remove"
                       => (/\ store' = [store EXCEPT !.email = <<>>,
                                                     !.confirmed = FALSE,
                                                     !.validation = "none"]
                           /\ pc' = "setUserField"
                           /\ userData' = userData)
                   /\ pc = "setUserField"
                       => (/\ store' = [store EXCEPT !.email = Submitted(last)]
                           /\ pc' = "confirmByUid"
                           /\ userData' = userData)
                   /\ pc = "confirmByUid"
                       => (/\ store' = [store EXCEPT !.confirmed = TRUE,
                                                     !.validation = "none"]
                           /\ store'.email = Submitted(last)
                           /\ pc' = "done"
                           /\ last'.result = "ok"
                           /\ ~userData'.updateEmail)]_vars

\* setting the new email was rejected after the old binding had been
\* removed: the callback threw, and the account is left without an email
C15_Witness ==
    /\ last.op = "emailCb"
    /\ last.result = "store-error"
    /\ Asked(last, "remove")
    /\ last.trace[Len(last.trace) - 1] = "setUserField"
    /\ store.email = <<>>
    /\ ~store.confirmed
    /\ Submitted(last) = EmailB
    /\ userData.updateEmail

-----------------------------------------------------------------------------
(* C16 *)

\* the lookups of the Promise.all of lines 63-74 and their join
JoinedLookups ==
    <<"isPasswordCorrect", "canEdit", "getUserFields", "saveEmail", "join">>

\* what a run does after the join and the delay: the resend and availability
\* tests, the store operations, the validation email and its log entry
AfterDelay ==
    StoreOps \cup {"canSendValidation", "available", "winston.error"}

\* C16: every run of the email callback on an existing account first joins
\* the four concurrent lookups; when the requester cannot administer users
\* and the password check failed, the fixed delay comes next, once, before
\* anything else the run does and before the error of a failing run is
\* raised; when the requester can administer users or the password check
\* passed there is no delay.  A run on a draft without a uid has neither.
C16_ThrottleOrder ==
    [][IsEmailCb(last')
       => IF TruthyUid(userData.uid)
          THEN LET t == last'.trace
                   delayed == /\ ~Captured(last').canManageUsers
                              /\ ~last'.oracles.isPasswordCorrect
               IN  /\ Len(t) >= Len(JoinedLookups)
                   /\ SubSeq(t, 1, Len(JoinedLookups)) = JoinedLookups
                   /\ delayed <=> Asked(last', "sleep")
                   /\ \A k \in DOMAIN t :
                        /\ t[k] = "sleep" => k = Len(JoinedLookups) + 1
                        /\ t[k] \in AfterDelay
                            => k > Len(JoinedLookups) + (IF delayed THEN 1 ELSE 0)
                        /\ k > Len(JoinedLookups) => t[k] \in AfterDelay \cup {"sleep"}
          ELSE ~Asked(last', "sleep") /\ ~Asked(last', "join")]_vars

\* a non-administrator's run was delayed after the join and then refused
\* with invalid-password, with nothing sent
C16_Witness ==
    /\ ExistingRun(last)
    /\ ~Captured(last).canManageUsers
    /\ ~last.oracles.isPasswordCorrect
    /\ Len(last.trace) = 6
    /\ last.trace[5] = "join"
    /\ last.trace[6] = "sleep"
    /\ last.result = "invalid-password"
    /\ last.via = "throw"

-----------------------------------------------------------------------------
(* C17 *)

\* the run reached the edit-privilege branch (line 102): a non-empty email
\* passed line 81 and the same-email checks, the administrator's branch was
\* not taken, and the requester has edit privilege
EditBranch(l) ==
    /\ ExistingWithEmail(l)
    /\ PassedValidation(l)
    /\ Submitted(l) = store.email
        => (~store.confirmed /\ canSendValidation(store))
    /\ ~AdminEditingOther(Captured(l).canManageUsers, userData.uid, req.uid)
    /\ RequesterCanEdit

\* C17: whenever the callback takes the edit-privilege branch for an account
\* that has a password and the password check failed, it fails with
\* invalid-password: no validation email is sent, session.emailChanged is
\* not set, and the store and the draft are as they were.
C17_PasswordRequired ==
    [][(/\ EditBranch(last')
        /\ Captured(last').hasPassword
        /\ ~last'.oracles.isPasswordCorrect)
       => (/\ last'.result = "invalid-password"
           /\ last'.via = "throw"
           /\ ~Asked(last', "sendValidationEmail")
           /\ NoStoreOp(last')
           /\ req'.emailChanged = req.emailChanged
           /\ NothingChanged)]_vars

\* an administrator changing the email of their own password-protected
\* account was refused with invalid-password after a failed password check
C17_Witness ==
    /\ EditBranch(last)
    /\ Captured(last).canManageUsers
    /\ userData.uid = req.uid
    /\ Captured(last).hasPassword
    /\ ~last.oracles.isPasswordCorrect
    /\ last.result = "invalid-password"
    /\ req.emailChanged = 0
    /\ store.validation = "none"
    /\ userData.updateEmail

-----------------------------------------------------------------------------
(* C18 *)

\* the render data of the email interstitials of the list
EmailRenderData ==
    {interstitials[i].data :
        i \in {j \in DOMAIN interstitials :
                  interstitials[j].template = "partials/email_update"}}

-----------------------------------------------------------------------------
(* C19 *)

\* an administrator submitted a non-empty email for the account whose id
\* parses to their own
AdminOnOwnAccount(l) ==
    /\ ExistingWithEmail(l)
    /\ Captured(l).canManageUsers
    /\ isSelf(userData.uid, req.uid)

\* C19: whenever the requester can administer users and the draft's uid and
\* the requester's uid denote the same account, as a number or as a numeric
\* string, the callback never sets and confirms the email: it succeeds only
\* through the edit-privilege branch, with the password where one is set and
\* a validation email sent.
C19_AsStated ==
    AdminOnOwnAccount(last)
    => (/\ ~Asked(last, "setUserField")
        /\ ~Asked(last, "confirmByUid")
        /\ last.result = "ok"
            => (Asked(last, "sendValidationEmail") /\ PasswordGiven(last)))

\* an administrator whose own uid reached the draft as a numeric string had
\* the email of their password-protected account replaced and confirmed
\* after a failed password check, with no validation email
C19_Witness ==
    /\ AdminOnOwnAccount(last)
    /\ userData.uid = StrUid(1)
    /\ req.uid = NumUid(1)
    /\ Captured(last).hasPassword
    /\ ~last.oracles.isPasswordCorrect
    /\ last.result = "ok"
    /\ Asked(last, "confirmByUid")
    /\ ~Asked(last, "sendValidationEmail")
    /\ store.email = EmailB
    /\ store.confirmed

-----------------------------------------------------------------------------
(* C20 *)

\* the callback threw or passed an error to the continuation
CallbackFailed(l) == l.op \in Callbacks /\ l.result # "ok"

\* C20 as stated: a failing callback leaves the draft as it was, and after a
\* run of the email callback updateEmail is absent from the draft if and
\* only if the run succeeded.
C20_AsStated ==
    [][/\ CallbackFailed(last') => userData' = userData
       /\ IsEmailCb(last')
           => (~userData'.updateEmail <=> last'.result = "ok")]_vars

\* C20: a callback that fails, by a thrown error or an error passed to the
\* continuation, leaves the draft's updateEmail, email, gdpr_consent and
\* acceptTos as they were; a run of the email callback that succeeds leaves
\* no updateEmail on the draft, and one that fails leaves the flag as it
\* found it: updateEmail is absent afterwards if and only if the run
\* succeeded or an earlier successful run had already deleted it.
C20_DraftOnFailure ==
    [][/\ CallbackFailed(last')
           => (/\ userData'.updateEmail = userData.updateEmail
               /\ userData'.email = userData.email
               /\ userData'.gdpr_consent = userData.gdpr_consent
               /\ userData'.acceptTos = userData.acceptTos
               /\ last'.via = IF IsEmailCb(last') THEN "throw" ELSE "next")
       /\ IsEmailCb(last')
           => (/\ last'.result = "ok" => ~userData'.updateEmail
               /\ ~userData'.updateEmail
                   <=> (last'.result = "ok" \/ ~userData.updateEmail))]_vars

\* the email callback had succeeded on a new registrant's draft and was
\* invoked again with a vetoed submission: it failed, and the draft kept the
\* staged email and no updateEmail
C20_Witness ==
    /\ CallbackFailed(last)
    /\ IsEmailCb(last)
    /\ ~last.oracles.allowed
    /\ ~TruthyUid(userData.uid)
    /\ ~userData.updateEmail
    /\ userData.email = EmailB

====
